---- MODULE Spec2Model ----
(***************************************************************************)
(* Model of ingredient_analytics.py: the paginated openFDA fetcher         *)
(* (_QueryOpenFDA), the two extractors, the two aggregators and the two    *)
(* plot methods (IngredientAnalytics, IngredientAndRouteAnalytics).        *)
(*                                                                         *)
(* Conventions.                                                            *)
(*  - A Python str is a sequence of one-character strings.                 *)
(*  - A JSON object is a TLA+ record; an absent key is absent from DOMAIN. *)
(*  - A drug name (an element of openfda.generic_name) is a natural number *)
(*    standing for a distinct string: the label at offset i is named i.    *)
(*  - A route cell is tagged with its Python type: [type, val] with type   *)
(*    "str", "list" or "nan" and val the sequence of route strings.        *)
(*  - A float mean is the exact fraction [num, den] (sum over count).      *)
(*  - The search's result set is the prefix of length total of the stream  *)
(*    of labels Rec(0), Rec(1), ...; the API may change total between two  *)
(*    requests.                                                            *)
(*  - A chart is its style (lineplot or barplot); what seaborn draws from  *)
(*    the table is not modelled. A figure holds one chart, and the files   *)
(*    of the graphs directory hold the style of the chart saved to them.   *)
(*  - An uncaught exception ends the program (pc = "raised").              *)
(***************************************************************************)
EXTENDS Integers, Sequences, FiniteSets, TLC

\* ---------------------------------------------------------------- bounds
\* Result-set sizes range over k * _max_limit + d, k in 0..MaxPages.
MaxPages == 2
\* How many times the API's total may change during one behaviour.
MaxChanges == 1

\* ----------------------------------------------------- program constants
\* _QueryOpenFDA._max_limit
MaxLimit == 99
\* The literal limit of a full-page request's URL.
PageLimit == 99

\* ---------------------------------------------------------------- strings
WhiteSpace == {" ", "\t", "\n"}

DigitVal == [c \in {"0","1","2","3","4","5","6","7","8","9"} |->
               CASE c = "0" -> 0 [] c = "1" -> 1 [] c = "2" -> 2 [] c = "3" -> 3
                 [] c = "4" -> 4 [] c = "5" -> 5 [] c = "6" -> 6 [] c = "7" -> 7
                 [] c = "8" -> 8 [] OTHER -> 9]

\* s[:-4]
DropLast4(s) == SubSeq(s, 1, Len(s) - 4)

\* int(s) succeeds (digits only are modelled; the empty string fails).
IsInt(s) == Len(s) > 0 /\ \A k \in 1..Len(s) : s[k] \in DOMAIN DigitVal

RECURSIVE IntOf(_)
IntOf(s) == IF s = <<>> THEN 0
            ELSE 10 * IntOf(SubSeq(s, 1, Len(s) - 1)) + DigitVal[s[Len(s)]]

\* len(s.split(' ')): one more than the number of single spaces.
SplitSpaceCount(s) == Cardinality({k \in 1..Len(s) : s[k] = " "}) + 1

\* ------------------------------------------------------------ the labels
Years == <<"6", "7", "8">>

EffectiveTime(i) == <<"2", "0", "1", Years[(i % 3) + 1], "0", "1", "0", "1">>

Elements(i) == CASE i % 4 = 0 -> <<"a">>
                 [] i % 4 = 1 -> <<"a", " ", "b">>
                 [] i % 4 = 2 -> <<"a", " ", "b", " ", "c">>
                 [] OTHER     -> <<"a", " ", "b", " ", "c", " ", "d">>

RouteStr(s)  == [type |-> "str",  val |-> <<s>>]
RouteList(l) == [type |-> "list", val |-> l]
NaN          == [type |-> "nan",  val |-> <<>>]

RouteOf(i) == CASE i % 4 = 0 -> RouteList(<<"ORAL">>)
                [] i % 4 = 1 -> RouteList(<<"SUBCUTANEOUS">>)
                [] i % 4 = 2 -> RouteStr("ORAL")
                [] OTHER     -> RouteList(<<"TOPICAL">>)

GenericName(i) == IF i % 7 = 3 THEN <<i, i + 1000>> ELSE <<i>>

Manufacturer == <<"AstraZeneca">>

FullOpenfda(i) == [manufacturer_name |-> Manufacturer,
                   generic_name |-> GenericName(i),
                   route |-> RouteOf(i)]

\* A label as the API documents it; every fifth one has no vendor metadata.
RegularLabel(i) ==
    [effective_time |-> EffectiveTime(i),
     openfda |-> IF i % 5 = 2 THEN <<>> ELSE FullOpenfda(i),
     spl_product_data_elements |-> <<Elements(i)>>]

\* The shapes the one special label of a result set may have.
ValidShapes   == {"no_route", "route_list2", "double_space", "tab", "trailing_space",
                  "empty_openfda"}
InvalidShapes == {"empty_no_time", "empty_short_time", "no_generic_name"}
Shapes == ValidShapes \cup InvalidShapes

SpecialLabel(i, shape) ==
    CASE shape = "no_route" ->
           [RegularLabel(i) EXCEPT !.openfda =
              [manufacturer_name |-> Manufacturer, generic_name |-> GenericName(i)]]
      [] shape = "route_list2" ->
           [RegularLabel(i) EXCEPT !.openfda =
              [FullOpenfda(i) EXCEPT !.route = RouteList(<<"ORAL", "TOPICAL">>)]]
      [] shape = "double_space" ->
           [RegularLabel(i) EXCEPT !.openfda = FullOpenfda(i),
              !.spl_product_data_elements = << <<"a", " ", " ", "b">> >>]
      [] shape = "tab" ->
           [RegularLabel(i) EXCEPT !.openfda = FullOpenfda(i),
              !.spl_product_data_elements = << <<"a", "\t", "b">> >>]
      [] shape = "trailing_space" ->
           [RegularLabel(i) EXCEPT !.openfda = FullOpenfda(i),
              !.spl_product_data_elements = << <<"a", " ", "b", " ">> >>]
      [] shape = "empty_openfda" ->
           [RegularLabel(i) EXCEPT !.openfda = <<>>]
      [] shape = "empty_no_time" ->
           [openfda |-> <<>>, spl_product_data_elements |-> <<Elements(i)>>]
      [] shape = "empty_short_time" ->
           [effective_time |-> <<"2", "0", "1", "7">>, openfda |-> <<>>,
            spl_product_data_elements |-> <<Elements(i)>>]
      [] OTHER ->
           [RegularLabel(i) EXCEPT !.openfda =
              [manufacturer_name |-> Manufacturer, route |-> RouteOf(i)]]

\* The label at offset i of the stream d = [bad, shape] (bad = -1: none special).
Rec(d, i) == IF i = d.bad THEN SpecialLabel(i, d.shape) ELSE RegularLabel(i)

\* ------------------------------------------------------------ the API
Min(a, b) == IF a < b THEN a ELSE b

\* The 'results' of GET url&skip=..&limit=.. on a result set of `total` labels.
PageResults(d, total, skip, limit) ==
    [k \in 1..(Min(skip + limit, total) - skip) |-> Rec(d, skip + k - 1)]

\* The API answers an offset outside the result set with an error document,
\* which has no 'results' key.
PageHasResults(total, skip) == 0 <= skip /\ skip < total

\* ------------------------------------------------------- the extractors
NoRow == [generic_name |-> <<>>, year |-> 0, num_ingredients |-> 0,
          manufacturer |-> <<>>]

Raise(e)  == [kind |-> "raise", err |-> e, row |-> NoRow]
Skip      == [kind |-> "skip", err |-> "", row |-> NoRow]
Produce(r) == [kind |-> "row", err |-> "", row |-> r]

\* The vendor metadata block is empty: i['openfda'] == {}.
EmptyOpenfda(i) == DOMAIN i.openfda = {}

\* len(i['spl_product_data_elements'][0].split(' '))
NumIngredients(i) == SplitSpaceCount(i.spl_product_data_elements[1])

\* The route cell of IngredientAndRouteAnalytics.extract_relevant_data.
RouteCell(i) ==
    IF "route" \notin DOMAIN i.openfda THEN NaN
    ELSE LET route == i.openfda.route
         IN IF route.type = "list" /\ Len(route.val) = 1
            THEN RouteStr(route.val[1]) ELSE route

\* One iteration of IngredientAnalytics.extract_relevant_data's loop.
ExtractOne(i) ==
    IF "effective_time" \notin DOMAIN i THEN Raise("KeyError")
    ELSE IF ~IsInt(DropLast4(i.effective_time)) THEN Raise("ValueError")
    ELSE IF EmptyOpenfda(i) THEN Skip
    ELSE IF "manufacturer_name" \notin DOMAIN i.openfda THEN Raise("KeyError")
    ELSE IF "generic_name" \notin DOMAIN i.openfda THEN Raise("KeyError")
    ELSE IF "spl_product_data_elements" \notin DOMAIN i THEN Raise("KeyError")
    ELSE Produce([generic_name |-> i.openfda.generic_name,
                  year |-> IntOf(DropLast4(i.effective_time)),
                  num_ingredients |-> NumIngredients(i),
                  manufacturer |-> i.openfda.manufacturer_name])

\* One iteration of IngredientAndRouteAnalytics.extract_relevant_data's loop.
ExtractOneRoute(i) ==
    IF "effective_time" \notin DOMAIN i THEN Raise("KeyError")
    ELSE IF ~IsInt(DropLast4(i.effective_time)) THEN Raise("ValueError")
    ELSE IF EmptyOpenfda(i) THEN Skip
    ELSE IF "manufacturer_name" \notin DOMAIN i.openfda THEN Raise("KeyError")
    ELSE IF "generic_name" \notin DOMAIN i.openfda THEN Raise("KeyError")
    ELSE IF "spl_product_data_elements" \notin DOMAIN i THEN Raise("KeyError")
    ELSE Produce([generic_name |-> i.openfda.generic_name,
                  route |-> RouteCell(i),
                  year |-> IntOf(DropLast4(i.effective_time)),
                  num_ingredients |-> NumIngredients(i),
                  manufacturer |-> i.openfda.manufacturer_name])

Outcomes(c, results) ==
    [k \in 1..Len(results) |->
       IF c = "IngredientAnalytics" THEN ExtractOne(results[k])
       ELSE ExtractOneRoute(results[k])]

\* extract_relevant_data(r): the page's table, or the first exception raised
\* (at is the index in the page of the label that raised).
ExtractRelevantData(c, results) ==
    LET out    == Outcomes(c, results)
        raised == {k \in 1..Len(out) : out[k].kind = "raise"}
        first  == CHOOSE k \in raised : \A j \in raised : k <= j
        kept   == SelectSeq(out, LAMBDA o : o.kind = "row")
    IN IF raised # {}
       THEN [ok |-> FALSE, err |-> out[first].err, at |-> first, rows |-> <<>>]
       ELSE [ok |-> TRUE, err |-> "", at |-> 0,
             rows |-> [k \in 1..Len(kept) |-> kept[k].row]]

\* ------------------------------------------------------ the aggregators
RECURSIVE SortedSeq(_)
\* The elements of a finite set of integers in ascending order (groupby
\* sorts the group keys).
SortedSeq(S) == IF S = {} THEN <<>>
                ELSE LET m == CHOOSE x \in S : \A y \in S : x <= y
                     IN <<m>> \o SortedSeq(S \ {m})

RECURSIVE Chain(_)
\* itertools.chain(*n): the lists of n, concatenated in order.
Chain(n) == IF n = <<>> THEN <<>>
            ELSE IF Len(n) = 1 THEN n[1]
            ELSE Chain(SubSeq(n, 1, Len(n) \div 2))
                 \o Chain(SubSeq(n, Len(n) \div 2 + 1, Len(n)))

RECURSIVE SumIngredients(_)
\* The sum of the num_ingredients column.
SumIngredients(rows) ==
    IF rows = <<>> THEN 0
    ELSE IF Len(rows) = 1 THEN rows[1].num_ingredients
    ELSE SumIngredients(SubSeq(rows, 1, Len(rows) \div 2))
         + SumIngredients(SubSeq(rows, Len(rows) \div 2 + 1, Len(rows)))

\* The mean of the num_ingredients column of a non-empty group, as a fraction.
MeanIngredients(rows) == [num |-> SumIngredients(rows), den |-> Len(rows)]

GenericNames(rows) == [k \in 1..Len(rows) |-> rows[k].generic_name]

\* A group that also takes the rows of the earlier years.
YearGroupUpTo(t, label) == SelectSeq(t, LAMBDA r : r.year <= label)

\* df[df['year'] == label] of the group of `label`.
YearGroup(t, label) == SelectSeq(t, LAMBDA r : r.year = label)

\* The keys of data.groupby(by='year').
YearKeys(t) == {t[k].year : k \in 1..Len(t)}

\* IngredientAnalytics.av_number_ingredients_per_year on the fetched table:
\* one row per group key, in key order. A table without rows has no numeric
\* column, and groupby(...).mean() raises DataError.
AvPerYear(t) ==
    IF t = <<>> THEN [ok |-> FALSE, err |-> "DataError", rows |-> <<>>]
    ELSE LET keys == SortedSeq(YearKeys(t))
         IN [ok |-> TRUE, err |-> "",
             rows |-> [k \in 1..Len(keys) |->
                         [year |-> keys[k],
                          drug_names |-> Chain(GenericNames(YearGroup(t, keys[k]))),
                          avg_number_of_ingredients |->
                              MeanIngredients(YearGroup(t, keys[k]))]]]

\* The order groupby gives the route strings of the labels.
RouteOrder == <<"ORAL", "SUBCUTANEOUS", "TOPICAL">>

RouteRank(s) == CHOOSE k \in 1..Len(RouteOrder) : RouteOrder[k] = s

\* df[(df['year'] == label[0]) & (df['route'] == label[1])]
YearRouteGroup(t, y, s) ==
    SelectSeq(t, LAMBDA r : r.year = y /\ r.route = RouteStr(s))

\* The keys of data.groupby(by=['year', 'route']): a row whose route is NaN
\* belongs to no group (groupby drops NaN keys).
YearRouteKeys(t) ==
    {<<t[k].year, t[k].route.val[1]>> : k \in {j \in 1..Len(t) : t[j].route.type = "str"}}

\* A list is not hashable: groupby raises TypeError on a list-valued key.
HasListRoute(t) == \E k \in 1..Len(t) : t[k].route.type = "list"

\* IngredientAndRouteAnalytics.av_number_ingredients_per_year_per_route.
\* Without any group (no row, or only NaN routes) the frame of names has a
\* one-level index, and giving it the two names ['year', 'route'] raises
\* ValueError.
AvPerYearPerRoute(t) ==
    IF HasListRoute(t) THEN [ok |-> FALSE, err |-> "TypeError", rows |-> <<>>]
    ELSE IF YearRouteKeys(t) = {} THEN [ok |-> FALSE, err |-> "ValueError", rows |-> <<>>]
    ELSE LET keyset == YearRouteKeys(t)
             ranks  == SortedSeq({key[1] * 10 + RouteRank(key[2]) : key \in keyset})
             keyOf(rk) == CHOOSE key \in keyset : key[1] * 10 + RouteRank(key[2]) = rk
         IN [ok |-> TRUE, err |-> "",
             rows |-> [k \in 1..Len(ranks) |->
                         LET key == keyOf(ranks[k])
                             g   == YearRouteGroup(t, key[1], key[2])
                         IN [year |-> key[1], route |-> key[2],
                             drug_name |-> Chain(GenericNames(g)),
                             avg_number_of_ingredients |-> MeanIngredients(g)]]]

\* ------------------------------------------------------------ the state
VARIABLES
    cls,                      \* the class of the object
    db,                       \* the stream of labels the search matches
    live,                     \* whether the result set changes while the program runs
    total,                    \* meta.results.total the API answers now
    changes,                  \* how often total has changed
    pc,                       \* the position of the thread of control
    call,                     \* which of __init__'s two _compute_chuncksizes calls
    number_of_full_requests,  \* _compute_chuncksizes' local
    last_request_size,        \* _compute_chuncksizes' local size_of_last_request
    answers,                  \* the totals answered during __init__
    num_full_requests,        \* self.num_full_requests
    size_of_last_request,     \* self.size_of_last_request
    op,                       \* the method the caller invoked
    style,                    \* plot's cls.__name__
    savefig,                  \* plot's savefig
    pass,                     \* which _fetch_data call of plot is running
    req,                      \* _fetch_data's loop variable
    start,                    \* _fetch_data's start of the trailing request
    l,                        \* _fetch_data's list of page tables
    data,                     \* the table _fetch_data returned
    log,                      \* the sleeps and requests of the running _fetch_data
    err,                      \* the exception that ended the program
    result,                   \* the aggregate table returned
    figs,                     \* the figures the running plot call created
    files                     \* the graphs directory

vars == <<cls, db, live, total, changes, pc, call, number_of_full_requests,
          last_request_size, answers, num_full_requests, size_of_last_request,
          op, style, savefig, pass, req, start, l, data, log, err, result,
          figs, files>>

Classes == {"IngredientAnalytics", "IngredientAndRouteAnalytics"}

\* Offsets the special label may have: first page, second page.
SpecialOffsets == {0, MaxLimit}

Streams == {[bad |-> -1, shape |-> "none"]} \cup
           {[bad |-> b, shape |-> s] : b \in SpecialOffsets, s \in Shapes}

Remainders == {0, 1, MaxLimit - 1}

Totals == {k * MaxLimit + d : k \in 0..MaxPages, d \in Remainders}

Styles == {"lineplot", "barplot", "scatterplot"}

FileNames == {"number_of_ingredients_per_year_lineplot.png",
              "number_of_ingredients_per_year_barplot.png",
              "number_of_ingredients_per_year_per_route_lineplot.png",
              "number_of_ingredients_per_year_per_route_barplot.png"}

NoErr == [type |-> "none", in |-> "", offset |-> -1]

Start ==
    /\ cls \in Classes
    /\ total \in Totals
    /\ changes = 0
    /\ pc = "compute_full"
    /\ call = 1
    /\ number_of_full_requests = 0
    /\ last_request_size = 0
    /\ answers = <<>>
    /\ num_full_requests = 0
    /\ size_of_last_request = 0
    /\ op = "__init__"
    /\ style = "lineplot"
    /\ savefig = FALSE
    /\ pass = 1
    /\ req = 0
    /\ start = 0
    /\ l = <<>>
    /\ data = <<>>
    /\ log = <<>>
    /\ err = NoErr
    /\ result = <<>>
    /\ figs = <<>>
    /\ files = [f \in FileNames |-> "absent"]

\* The result set is fixed while the program runs.
Init == Start /\ live = FALSE /\ db \in Streams

\* The API's index is updated while the program runs (every label regular).
InitLive == Start /\ live = TRUE /\ db = [bad |-> -1, shape |-> "none"]

\* ------------------------------------------------------------ requests
\* The totals the API may answer the next request with.
NextTotals == {total} \cup
              (IF live /\ changes < MaxChanges
               THEN {total + 1} \cup (IF total > 0 THEN {total - 1} ELSE {})
               ELSE {})

\* One request is answered from a result set of t labels.
Answered(t) == /\ t \in NextTotals
               /\ total' = t
               /\ changes' = IF t = total THEN changes ELSE changes + 1

Event(kind, skip, limit) == [kind |-> kind, skip |-> skip, limit |-> limit]

objVars   == <<cls, db, live>>
apiVars   == <<total, changes>>
initVars  == <<call, number_of_full_requests, last_request_size, answers,
               num_full_requests, size_of_last_request>>
callVars  == <<op, style, savefig>>
fetchVars == <<req, start, l, log>>
outVars   == <<data, result, figs, files>>

\* An exception propagates uncaught and ends the program.
Raised(type, in, offset) ==
    /\ pc' = "raised"
    /\ err' = [type |-> type, in |-> in, offset |-> offset]

\* ------------------------------------------------------------- __init__
\* _compute_chuncksizes, first request:
\* number_of_full_requests = self._number_of_search_results() // self._max_limit
ComputeFull ==
    /\ pc = "compute_full"
    /\ \E t \in NextTotals :
         /\ Answered(t)
         /\ answers' = Append(answers, t)
         /\ number_of_full_requests' = t \div MaxLimit
    /\ pc' = "compute_last"
    /\ UNCHANGED <<objVars, call, last_request_size, num_full_requests,
                   size_of_last_request, callVars, pass, fetchVars, outVars, err>>

\* second request:
\* size_of_last_request = self._number_of_search_results() % self._max_limit
ComputeLast ==
    /\ pc = "compute_last"
    /\ \E t \in NextTotals :
         /\ Answered(t)
         /\ answers' = Append(answers, t)
         /\ last_request_size' = t % MaxLimit
    /\ pc' = "compute_assert"
    /\ UNCHANGED <<objVars, call, number_of_full_requests, num_full_requests,
                   size_of_last_request, callVars, pass, fetchVars, outVars, err>>

\* third request, the assertion, and __init__'s assignment of the call's result:
\* the first call's 'num_full_requests', the second call's 'size_of_last_request'.
ComputeAssert ==
    /\ pc = "compute_assert"
    /\ \E t \in NextTotals :
         /\ Answered(t)
         /\ answers' = Append(answers, t)
         /\ IF number_of_full_requests * MaxLimit + last_request_size # t
            THEN /\ Raised("AssertionError", "_compute_chuncksizes", -1)
                 /\ UNCHANGED <<call, num_full_requests, size_of_last_request, op>>
            ELSE IF call = 1
            THEN /\ num_full_requests' = number_of_full_requests
                 /\ call' = 2
                 /\ pc' = "compute_full"
                 /\ UNCHANGED <<size_of_last_request, err, op>>
            ELSE /\ size_of_last_request' = last_request_size
                 /\ pc' = "idle"
                 /\ op' = "idle"
                 /\ UNCHANGED <<call, num_full_requests, err>>
    /\ UNCHANGED <<objVars, number_of_full_requests, last_request_size,
                   style, savefig, pass, fetchVars, outVars>>

\* ---------------------------------------------------------- the callers
\* q._fetch_data()
CallFetchData ==
    /\ pc = "idle"
    /\ op' = "_fetch_data"
    /\ pc' = "fetch_begin"
    /\ UNCHANGED <<objVars, apiVars, initVars, style, savefig, pass, fetchVars,
                   outVars, err>>

\* q.av_number_ingredients_per_year(), q.av_number_ingredients_per_year_per_route()
CallAverage ==
    /\ pc = "idle"
    /\ op' = IF cls = "IngredientAnalytics"
             THEN "av_number_ingredients_per_year"
             ELSE "av_number_ingredients_per_year_per_route"
    /\ pc' = "fetch_begin"
    /\ UNCHANGED <<objVars, apiVars, initVars, style, savefig, pass, fetchVars,
                   outVars, err>>

\* q.plot(cls, savefig), up to the check of cls.__name__
CallPlot ==
    /\ pc = "idle"
    /\ op' = "plot"
    /\ \E st \in Styles, sv \in BOOLEAN :
         /\ style' = st
         /\ savefig' = sv
         /\ IF st \notin {"lineplot", "barplot"}
            THEN Raised("TypeError", "plot", -1)
            ELSE pc' = "fetch_begin" /\ UNCHANGED err
    /\ UNCHANGED <<objVars, apiVars, initVars, pass, fetchVars, outVars>>

\* The caller drops what the call returned and goes on.
Return ==
    /\ pc = "done"
    /\ pc' = "idle"
    /\ op' = "idle"
    /\ style' = "lineplot"
    /\ savefig' = FALSE
    /\ pass' = 1
    /\ req' = 0
    /\ start' = 0
    /\ l' = <<>>
    /\ log' = <<>>
    /\ data' = <<>>
    /\ result' = <<>>
    /\ figs' = <<>>
    /\ UNCHANGED <<objVars, apiVars, initVars, files, err>>

\* ---------------------------------------------------------- _fetch_data
\* l = []
FetchBegin ==
    /\ pc = "fetch_begin"
    /\ l' = <<>>
    /\ req' = 0
    /\ log' = <<>>
    /\ pc' = "loop"
    /\ UNCHANGED <<objVars, apiVars, initVars, callVars, pass, start, outVars, err>>

\* for req in range(self.num_full_requests): time.sleep(5.0)
FetchSleep ==
    /\ pc = "loop"
    /\ req < num_full_requests
    /\ log' = Append(log, Event("sleep", -1, -1))
    /\ pc' = "print"
    /\ UNCHANGED <<objVars, apiVars, initVars, callVars, pass, req, start, l,
                   outVars, err>>

\* print(f'collecting ... of {self._number_of_search_results()}')
FetchPrint ==
    /\ pc = "print"
    /\ \E t \in NextTotals : Answered(t)
    /\ log' = Append(log, Event("count", -1, -1))
    /\ pc' = "page"
    /\ UNCHANGED <<objVars, initVars, callVars, pass, req, start, l, outVars, err>>

\* The start of the full-page request of loop index r.
FullPageStart(r) == r * MaxLimit

\* A trailing request that starts one label late.
LastPageStartLate(t) == t - size_of_last_request + 1

\* The start of the trailing request, from the total just answered.
LastPageStart(t) == t - size_of_last_request

\* requests.get(url&skip=..&limit=..).json() answered from t labels, then
\* l.append(self.extract_relevant_data(r)); next is where control goes on.
RequestPage(t, skip, limit, next) ==
    /\ log' = Append(log, Event("page", skip, limit))
    /\ IF ~PageHasResults(t, skip)
       THEN /\ Raised("KeyError", "extract_relevant_data", -1)
            /\ UNCHANGED l
       ELSE LET x == ExtractRelevantData(cls, PageResults(db, t, skip, limit))
            IN IF x.ok
               THEN /\ l' = Append(l, x.rows)
                    /\ pc' = next
                    /\ UNCHANGED err
               ELSE /\ Raised(x.err, "extract_relevant_data", skip + x.at - 1)
                    /\ UNCHANGED l

\* r = requests.get(f'{self.url}&skip={start}&limit=99').json(); l.append(...)
FetchPage ==
    /\ pc = "page"
    /\ \E t \in NextTotals :
         /\ Answered(t)
         /\ RequestPage(t, FullPageStart(req), PageLimit, "loop")
    /\ req' = IF pc' = "loop" THEN req + 1 ELSE req
    /\ UNCHANGED <<objVars, initVars, callVars, pass, start, outVars>>

\* if self.size_of_last_request != 0:
\*     start = self._number_of_search_results() - self.size_of_last_request
FetchLastStart ==
    /\ pc = "loop"
    /\ req >= num_full_requests
    /\ size_of_last_request # 0
    /\ \E t \in NextTotals :
         /\ Answered(t)
         /\ start' = LastPageStart(t)
    /\ log' = Append(log, Event("count", -1, -1))
    /\ pc' = "last_page"
    /\ UNCHANGED <<objVars, initVars, callVars, pass, req, l, outVars, err>>

\* last_request = requests.get(...skip={start}&limit={size_of_last_request})
FetchLastPage ==
    /\ pc = "last_page"
    /\ \E t \in NextTotals :
         /\ Answered(t)
         /\ RequestPage(t, start, size_of_last_request, "concat")
    /\ UNCHANGED <<objVars, initVars, callVars, pass, req, start, outVars>>

\* Where control goes on when _fetch_data has returned.
AfterFetch == CASE op = "_fetch_data" -> "done"
                [] op = "plot" -> "draw"
                [] OTHER -> "aggregate"

\* return pd.concat(l): concat raises ValueError on an empty list.
FetchConcat ==
    /\ IF pc = "loop"
       THEN req >= num_full_requests /\ size_of_last_request = 0
       ELSE pc = "concat"
    /\ IF l = <<>>
       THEN /\ Raised("ValueError", "_fetch_data", -1)
            /\ UNCHANGED data
       ELSE /\ data' = Chain(l)
            /\ pc' = AfterFetch
            /\ UNCHANGED err
    /\ UNCHANGED <<objVars, apiVars, initVars, callVars, pass, fetchVars,
                   result, figs, files>>

\* ------------------------------------------------------ the aggregates
\* av_number_ingredients_per_year, after data = self._fetch_data()
AvNumberIngredientsPerYear ==
    /\ pc = "aggregate"
    /\ cls = "IngredientAnalytics"
    /\ LET a == AvPerYear(data)
       IN IF a.ok
          THEN result' = a.rows /\ pc' = "done" /\ UNCHANGED err
          ELSE Raised(a.err, op, -1) /\ UNCHANGED result
    /\ UNCHANGED <<objVars, apiVars, initVars, callVars, pass, fetchVars,
                   data, figs, files>>

\* av_number_ingredients_per_year_per_route, after data = self._fetch_data()
AvNumberIngredientsPerYearPerRoute ==
    /\ pc = "aggregate"
    /\ cls = "IngredientAndRouteAnalytics"
    /\ LET a == AvPerYearPerRoute(data)
       IN IF a.ok
          THEN result' = a.rows /\ pc' = "done" /\ UNCHANGED err
          ELSE Raised(a.err, op, -1) /\ UNCHANGED result
    /\ UNCHANGED <<objVars, apiVars, initVars, callVars, pass, fetchVars,
                   data, figs, files>>

\* ------------------------------------------------------------ the plots
\* The file name plot saves to.
FileName(c, st) ==
    CASE c = "IngredientAnalytics" /\ st = "lineplot" ->
           "number_of_ingredients_per_year_lineplot.png"
      [] c = "IngredientAnalytics" /\ st = "barplot" ->
           "number_of_ingredients_per_year_barplot.png"
      [] c = "IngredientAndRouteAnalytics" /\ st = "lineplot" ->
           "number_of_ingredients_per_year_per_route_lineplot.png"
      [] OTHER ->
           "number_of_ingredients_per_year_per_route_barplot.png"

\* plt.savefig(fname) writes the current figure, the last one created;
\* plt.show() writes nothing.
SaveOrShow(fs) ==
    files' = IF savefig
             THEN [files EXCEPT ![FileName(cls, style)] = fs[Len(fs)]]
             ELSE files

\* The style of the chart IngredientAnalytics.plot draws on its second figure.
SecondChartStyle == "lineplot"

\* IngredientAnalytics.plot: fig = plt.figure(); cls(data=data, ...)
\* and then data = self._fetch_data() once more.
PlotFirstChart ==
    /\ pc = "draw"
    /\ cls = "IngredientAnalytics"
    /\ pass = 1
    /\ figs' = Append(figs, style)
    /\ pass' = 2
    /\ pc' = "fetch_begin"
    /\ UNCHANGED <<objVars, apiVars, initVars, callVars, fetchVars, data,
                   result, files, err>>

\* IngredientAnalytics.plot: fig = plt.figure(); seaborn.lineplot(data=data, ...)
\* and the save or show.
PlotSecondChart ==
    /\ pc = "draw"
    /\ cls = "IngredientAnalytics"
    /\ pass = 2
    /\ figs' = Append(figs, SecondChartStyle)
    /\ SaveOrShow(figs')
    /\ pc' = "done"
    /\ UNCHANGED <<objVars, apiVars, initVars, callVars, pass, fetchVars, data,
                   result, err>>

\* IngredientAndRouteAnalytics.plot: fig = plt.figure(); cls(data=data, ...)
\* and the save or show.
PlotRouteChart ==
    /\ pc = "draw"
    /\ cls = "IngredientAndRouteAnalytics"
    /\ figs' = Append(figs, style)
    /\ SaveOrShow(figs')
    /\ pc' = "done"
    /\ UNCHANGED <<objVars, apiVars, initVars, callVars, pass, fetchVars, data,
                   result, err>>

\* ------------------------------------------------------ specification
Next ==
    \/ ComputeFull
    \/ ComputeLast
    \/ ComputeAssert
    \/ CallFetchData
    \/ CallAverage
    \/ CallPlot
    \/ Return
    \/ FetchBegin
    \/ FetchSleep
    \/ FetchPrint
    \/ FetchPage
    \/ FetchLastStart
    \/ FetchLastPage
    \/ FetchConcat
    \/ AvNumberIngredientsPerYear
    \/ AvNumberIngredientsPerYearPerRoute
    \/ PlotFirstChart
    \/ PlotSecondChart
    \/ PlotRouteChart

Spec == Init /\ [][Next]_vars

SpecLive == InitLive /\ [][Next]_vars

\* ============================================================ the claims
\* _fetch_data has returned its table (data) to its caller.
FetchReturned == pc \in {"done", "aggregate", "draw"}

\* _fetch_data, or the extractor it calls, has raised.
FetchRaised == pc = "raised" /\ err.in \in {"extract_relevant_data", "_fetch_data"}

\* The page requests of the running _fetch_data, in the order sent.
PageRequests == SelectSeq(log, LAMBDA e : e.kind = "page")

\* The offset of the label a row was extracted from (the label at offset i is
\* the one named i).
RowOffset(r) == r.generic_name[1]

\* Every label of the result set has the fields the extractor reads.
SchemaValid == db.shape \notin InvalidShapes \/ db.bad < 0 \/ db.bad >= total

\* The offsets of the labels of the result set that have vendor metadata.
UsableOffsets == {i \in 0..(total - 1) : ~EmptyOpenfda(Rec(db, i))}

\* The page requests the claim C1 lists for a result set of n labels.
ListedRequests(n) ==
    [k \in 1..(n \div 99) |-> Event("page", 99 * (k - 1), 99)]
    \o (IF n % 99 # 0 THEN <<Event("page", n - (n % 99), n % 99)>> ELSE <<>>)

\* How many of the page requests sent cover offset i.
TimesCovered(i) ==
    Cardinality({k \in 1..Len(PageRequests) :
                   PageRequests[k].skip <= i
                   /\ i < PageRequests[k].skip + PageRequests[k].limit})

\* C1: for a fixed result set of N >= 1 labels, the table _fetch_data returns
\* holds exactly one row for every label at offsets 0..N-1 whose openfda is
\* non-empty, in ascending offset order; the page requests sent are the full
\* pages (skip 99k, limit 99) and, when N mod 99 is non-zero, the trailing one
\* (skip N - N mod 99, limit N mod 99), which cover every offset exactly once;
\* and when every label has the fields the extractor reads, _fetch_data does
\* return.
C1_FetchCoversEveryOffsetOnce ==
    total >= 1 =>
      /\ FetchReturned =>
           LET usable == UsableOffsets
           IN /\ PageRequests = ListedRequests(total)
              /\ \A i \in 0..(total - 1) : TimesCovered(i) = 1
              /\ Len(data) = Cardinality(usable)
              /\ \A k \in 1..Len(data) :
                   /\ RowOffset(data[k]) \in usable
                   /\ data[k].generic_name =
                        Rec(db, RowOffset(data[k])).openfda.generic_name
                   /\ k > 1 => RowOffset(data[k - 1]) < RowOffset(data[k])
      /\ SchemaValid => ~FetchRaised

\* C1's case: a direct _fetch_data call on 2 * 99 + 1 labels has sent two full
\* pages and the trailing request and returned a table that skips some labels.
C1_Witness ==
    /\ pc = "done"
    /\ op = "_fetch_data"
    /\ total = 2 * MaxLimit + 1
    /\ Len(PageRequests) = 3
    /\ Len(data) > MaxLimit
    /\ Len(data) < total

RECURSIVE SumOfYear(_, _, _, _)
\* The sum of num_ingredients over the rows lo..hi of table t whose year is y.
SumOfYear(t, y, lo, hi) ==
    IF lo > hi THEN 0
    ELSE IF lo = hi THEN (IF t[lo].year = y THEN t[lo].num_ingredients ELSE 0)
    ELSE SumOfYear(t, y, lo, (lo + hi) \div 2)
         + SumOfYear(t, y, (lo + hi) \div 2 + 1, hi)

RECURSIVE NamesOfYear(_, _, _, _)
\* The generic_name entries of the rows lo..hi of t whose year is y, in row order.
NamesOfYear(t, y, lo, hi) ==
    IF lo > hi THEN <<>>
    ELSE IF lo = hi THEN (IF t[lo].year = y THEN t[lo].generic_name ELSE <<>>)
    ELSE NamesOfYear(t, y, lo, (lo + hi) \div 2)
         \o NamesOfYear(t, y, (lo + hi) \div 2 + 1, hi)

\* C7: the table av_number_ingredients_per_year returns has exactly one row
\* for each year that occurs among the fetched rows and none for another year;
\* the row's mean is the sum of num_ingredients of the fetched rows of that
\* year over their number, and its drug_names are the generic_name entries of
\* exactly those rows, in row order.
C7_OneAggregateRowPerYear ==
    (pc = "done" /\ op = "av_number_ingredients_per_year") =>
      /\ {result[k].year : k \in 1..Len(result)} = {data[j].year : j \in 1..Len(data)}
      /\ \A k \in 1..Len(result), m \in 1..Len(result) :
           result[k].year = result[m].year => k = m
      /\ \A k \in 1..Len(result) :
           LET rows == {j \in 1..Len(data) : data[j].year = result[k].year}
           IN /\ result[k].avg_number_of_ingredients.den = Cardinality(rows)
              /\ result[k].avg_number_of_ingredients.num =
                   SumOfYear(data, result[k].year, 1, Len(data))
              /\ result[k].drug_names =
                   NamesOfYear(data, result[k].year, 1, Len(data))

\* C7's case: the aggregate of a table of more than one page has three years,
\* and one of its rows lists more names than its year has fetched rows (a
\* label with two generic names).
C7_Witness ==
    /\ pc = "done"
    /\ op = "av_number_ingredients_per_year"
    /\ Len(data) > MaxLimit
    /\ Len(result) = 3
    /\ \E k \in 1..Len(result) :
         Len(result[k].drug_names) > result[k].avg_number_of_ingredients.den

\* C2: the full-page count and the remainder stored at construction derive
\* from one and the same answered total T, whatever totals the API answers:
\* once __init__ has returned, num_full_requests * 99 + size_of_last_request
\* = T with 0 <= size_of_last_request < 99, and the assertion of
\* _compute_chuncksizes never fails.
C2_CountsFromOneTotal ==
    /\ err.type # "AssertionError"
    /\ op # "__init__" =>
         /\ 0 <= size_of_last_request
         /\ size_of_last_request < 99
         /\ \E k \in 1..Len(answers) :
              num_full_requests * 99 + size_of_last_request = answers[k]

\* C3: between any two page requests of one _fetch_data call there is a sleep.
C3_SleepBetweenPageRequests ==
    \A i \in 1..Len(log), j \in 1..Len(log) :
       (i < j /\ log[i].kind = "page" /\ log[j].kind = "page") =>
          \E k \in (i + 1)..(j - 1) : log[k].kind = "sleep"

\* C4: a label whose openfda is empty yields no row and raises no error,
\* whatever its other fields are or lack.
C4_EmptyMetadataSkipped ==
    /\ (pc = "raised" /\ err.in = "extract_relevant_data" /\ err.offset >= 0) =>
          ~EmptyOpenfda(Rec(db, err.offset))
    /\ \A k \in 1..Len(data) : ~EmptyOpenfda(Rec(db, RowOffset(data[k])))

\* C5: every route cell of IngredientAndRouteAnalytics' table is a scalar
\* string: the label's route when that is a single value, its sole element
\* when it is a one-element list, "missing" when the label has no route; never
\* a list, never a not-a-number.
C5_RouteIsScalar ==
    cls = "IngredientAndRouteAnalytics" =>
      \A k \in 1..Len(data) :
         LET meta == Rec(db, RowOffset(data[k])).openfda
         IN /\ data[k].route.type = "str"
            /\ "route" \notin DOMAIN meta => data[k].route = RouteStr("missing")
            /\ ("route" \in DOMAIN meta /\ Len(meta.route.val) = 1) =>
                  data[k].route = RouteStr(meta.route.val[1])

\* The number of whitespace-separated tokens of s (Python's s.split()): the
\* positions where a run of non-whitespace characters starts.
WhitespaceTokens(s) ==
    Cardinality({k \in 1..Len(s) :
                   s[k] \notin WhiteSpace /\ (k = 1 \/ s[k - 1] \in WhiteSpace)})

\* C6: num_ingredients of every row is the number of whitespace-separated
\* tokens of the first string of the label's spl_product_data_elements.
C6_CountsWhitespaceTokens ==
    \A k \in 1..Len(data) :
       data[k].num_ingredients =
          WhitespaceTokens(Rec(db, RowOffset(data[k])).spl_product_data_elements[1])

\* C8: when plot(cls, savefig=True) has returned, the chart it saved is drawn
\* in the style cls: the file named by the grouping and the style holds a bar
\* chart when barplot was chosen and a line chart when lineplot was chosen.
C8_SavedChartHasChosenStyle ==
    (pc = "done" /\ op = "plot" /\ savefig) =>
      /\ figs[Len(figs)] = style
      /\ files[FileName(cls, style)] = style

RECURSIVE GroupSizes(_)
\* The number of fetched rows the aggregate rows stand for.
GroupSizes(rows) ==
    IF rows = <<>> THEN 0
    ELSE rows[1].avg_number_of_ingredients.den + GroupSizes(Tail(rows))

\* C9: the aggregate av_number_ingredients_per_year_per_route returns loses
\* no fetched row: the sizes of its groups sum to the number of fetched rows,
\* and every fetched row's name is in the drug_name list of an aggregate row.
C9_NoRowLost ==
    (pc = "done" /\ op = "av_number_ingredients_per_year_per_route") =>
      /\ GroupSizes(result) = Len(data)
      /\ \A j \in 1..Len(data) :
           \E k \in 1..Len(result) :
              \E m \in 1..Len(result[k].drug_name) :
                 result[k].drug_name[m] = RowOffset(data[j])

\* C10: _fetch_data returns a table for every total N >= 0; for N = 0 it sends
\* no page request and returns the empty table.
C10_FetchReturnsForEveryTotal ==
    /\ ~(pc = "raised" /\ err.in = "_fetch_data")
    /\ (total = 0 /\ FetchReturned) => (data = <<>> /\ PageRequests = <<>>)

====
